---- MODULE Spec2Model ----
(***************************************************************************)
(* A model of the UFL form aggregate (ufl/form.py), the zero-tensor cache  *)
(* (ufl/base.py) and the Indexed node (ufl/indexed.py).                    *)
(*                                                                         *)
(* Objects live in heaps indexed by creation order, so an index plays the  *)
(* role of the Python object identity.                                     *)
(***************************************************************************)
EXTENDS Integers, Sequences, FiniteSets, TLC

VARIABLES
    forms,        \* heap of Form objects, in creation order
    ret,          \* what the last call was and what it returned or raised
    pplog,        \* history: the metadata objects preprocess has returned, in call order
    zero_cache,   \* base._zero_cache: shape -> index into zeros (0: no entry)
    zeros,        \* heap of ZeroType objects (each is its shape)
    returned,     \* history: shape -> the instances zero_tensor has returned for it
    thr,          \* per thread: position inside zero_tensor and its locals
    nodes         \* heap of Indexed nodes

vars == <<forms, ret, pplog, zero_cache, zeros, returned, thr, nodes>>

(***************************************************************************)
(* Bounds of the model.                                                    *)
(***************************************************************************)
MaxForms == 3        \* Form objects in the heap of the form-algebra runs
MaxMemoForms == 2    \* Form objects in the heap of the memoization runs
MaxPreprocess == 4   \* calls of preprocess ever made
MaxZeros == 5        \* ZeroType objects ever created
MaxNodes == 2        \* Indexed nodes in the heap
MaxCellForms == 1    \* Form objects in the heap of the cell runs

(***************************************************************************)
(* Expressions, measures, integrals.                                       *)
(***************************************************************************)
\* An expression node: its kind and its operands.
Node(k, ops) == [k |-> k, ops |-> ops]
Terminal(name) == Node(name, <<>>)

\* a + b on expressions: the structural sum, left operand first.
Expr__add__(a, b) == Node("Sum", <<a, b>>)
\* -a on an expression.
Expr__neg__(a) == Node("Neg", <<a>>)
\* scalar * a on an expression; the scalar becomes a constant leaf.
Expr__rmul__(s, a) == Node("Product", <<Terminal(s), a>>)

\* Measure(domain_type, domain_id, metadata)
Measure(dt, id, md) == [domain_type |-> dt, domain_id |-> id, metadata |-> md]

\* The key integrals are grouped by: domain type and domain id.
MeasureKey(m) == <<m.domain_type, m.domain_id>>

\* Integral(integrand, measure); type is the Python class of the object.
Integral(e, m) == [type |-> "Integral", integrand |-> e, measure |-> m]

\* Integral.reconstruct(integrand): a new integral with the receiver's measure.
Integral_reconstruct(itg, e) == Integral(e, itg.measure)
Integral__neg__(itg) == Integral_reconstruct(itg, Expr__neg__(itg.integrand))
Integral__rmul__(s, itg) == Integral_reconstruct(itg, Expr__rmul__(s, itg.integrand))

\* isinstance(itg, Integral)
IsIntegral(x) == x.type = "Integral"

(***************************************************************************)
(* Inputs.                                                                 *)
(***************************************************************************)
dx0 == Measure("cell", 0, "None")
dx0q == Measure("cell", 0, "q2")
ds0 == Measure("exterior_facet", 0, "None")

Ia == Integral(Terminal("f"), dx0)
Ib == Integral(Terminal("g"), dx0q)
Ic == Integral(Terminal("g"), ds0)
\* an expression handed to Form(...) where an integral is expected
NotAnIntegral == [type |-> "Expr", integrand |-> Terminal("f"), measure |-> dx0]

InputLists ==
    { <<>>, <<Ia>>, <<Ib>>, <<Ic>>, <<Ia, Ic>>, <<Ia, Ib>>, <<Ia, NotAnIntegral>> }

\* the lists the memoization runs build forms from
MemoLists == { <<>>, <<Ia>>, <<Ib>>, <<Ia, Ic>> }

\* scalar operands of scalar * form; "u" stands for a non-literal expression
Scalars == {"2", "u"}
is_python_scalar(s) == s \in {"0", "2"}

(***************************************************************************)
(* The Form class.                                                         *)
(***************************************************************************)
NoStr == "None"
NoHash == <<"None">>
NoData == [owner |-> 0, args |-> "None", serial |-> 0]

\* Form.__init__: the state of a new Form object.
Form__init__(integrals) ==
    [class |-> "Form", integrals |-> integrals, str |-> NoStr, repr |-> NoStr, hash |-> NoHash,
     form_data |-> NoData]

\* ufl_assert(all(isinstance(itg, Integral) ...)) of Form.__init__
Form__init__ok(integrals) == \A k \in 1..Len(integrals) : IsIntegral(integrals[k])

\* the first loop of Form.__add__: no measure occurs twice in self._integrals
Form__add__ok(self) ==
    \A i, j \in 1..Len(self.integrals) :
        i < j => MeasureKey(self.integrals[i].measure) /= MeasureKey(self.integrals[j].measure)

\* measure2idx.get(m): the index of the first integral with this measure, 0 if none
RECURSIVE IndexOfMeasure(_, _, _)
IndexOfMeasure(lst, key, i) ==
    IF i > Len(lst) THEN 0
    ELSE IF MeasureKey(lst[i].measure) = key THEN i
    ELSE IndexOfMeasure(lst, key, i + 1)

\* AddIntegral rebuilding from the integral already in the list
AddIntegralFromLeft(newintegrals, itg) ==
    LET idx == IndexOfMeasure(newintegrals, MeasureKey(itg.measure), 1) IN
    IF idx = 0
    THEN Append(newintegrals, itg)
    ELSE [newintegrals EXCEPT ![idx] =
            Integral_reconstruct(newintegrals[idx],
                                 Expr__add__(newintegrals[idx].integrand, itg.integrand))]

\* one iteration of the second loop of Form.__add__
AddIntegral(newintegrals, itg) ==
    LET idx == IndexOfMeasure(newintegrals, MeasureKey(itg.measure), 1) IN
    IF idx = 0
    THEN Append(newintegrals, itg)
    ELSE [newintegrals EXCEPT ![idx] =
            Integral_reconstruct(itg, Expr__add__(newintegrals[idx].integrand, itg.integrand))]

\* the second loop of Form.__add__ over other._integrals[k..]
RECURSIVE AddLoop(_, _, _)
AddLoop(newintegrals, others, k) ==
    IF k > Len(others) THEN newintegrals
    ELSE AddLoop(AddIntegral(newintegrals, others[k]), others, k + 1)

\* the integral list of self + other
Form__add__(self, other) == AddLoop(self.integrals, other.integrals, 1)

\* the integral list of -self
Form__neg__(self) == [k \in 1..Len(self.integrals) |-> Integral__neg__(self.integrals[k])]

\* the integral list of scalar * self
Form__rmul__(self, s) == [k \in 1..Len(self.integrals) |-> Integral__rmul__(s, self.integrals[k])]

Ret(op, a, b, arg, raised, val) ==
    [op |-> op, a |-> a, b |-> b, arg |-> arg, raised |-> raised, val |-> val]

\* a call that created the Form with these integrals, or raised in its constructor
NewForm(op, a, b, arg, integrals) ==
    IF Form__init__ok(integrals)
    THEN /\ forms' = Append(forms, Form__init__(integrals))
         /\ ret' = Ret(op, a, b, arg, FALSE, Len(forms) + 1)
    ELSE /\ forms' = forms
         /\ ret' = Ret(op, a, b, arg, TRUE, 0)

Raise(op, a, b, arg) ==
    /\ forms' = forms
    /\ ret' = Ret(op, a, b, arg, TRUE, 0)

FormIds == 1..Len(forms)

\* Form(integrals)
Construct(integrals, max) ==
    /\ Len(forms) < max
    /\ NewForm("Form", 0, 0, integrals, integrals)
    /\ UNCHANGED <<pplog, zero_cache, zeros, returned, thr, nodes>>

\* forms[i] + forms[j] accumulating in the integral list of forms[i] itself
AddInPlace(i, j, max) ==
    /\ Len(forms) < max
    /\ IF Form__add__ok(forms[i])
       THEN /\ Form__init__ok(Form__add__(forms[i], forms[j]))
            /\ forms' = Append([forms EXCEPT ![i].integrals = Form__add__(forms[i], forms[j])],
                               Form__init__(Form__add__(forms[i], forms[j])))
            /\ ret' = Ret("add", i, j, <<>>, FALSE, Len(forms) + 1)
       ELSE Raise("add", i, j, <<>>)
    /\ UNCHANGED <<pplog, zero_cache, zeros, returned, thr, nodes>>

\* forms[i] + forms[j]
Add(i, j, max) ==
    /\ Len(forms) < max
    /\ IF Form__add__ok(forms[i])
       THEN NewForm("add", i, j, <<>>, Form__add__(forms[i], forms[j]))
       ELSE Raise("add", i, j, <<>>)
    /\ UNCHANGED <<pplog, zero_cache, zeros, returned, thr, nodes>>

\* forms[i] - forms[j], that is forms[i] + (-forms[j])
Sub(i, j, max) ==
    /\ Len(forms) < max
    /\ IF Form__add__ok(forms[i])
       THEN NewForm("sub", i, j, <<>>,
                    Form__add__(forms[i], Form__init__(Form__neg__(forms[j]))))
       ELSE Raise("sub", i, j, <<>>)
    /\ UNCHANGED <<pplog, zero_cache, zeros, returned, thr, nodes>>

\* -forms[i]
Neg(i, max) ==
    /\ Len(forms) < max
    /\ NewForm("neg", i, 0, <<>>, Form__neg__(forms[i]))
    /\ UNCHANGED <<pplog, zero_cache, zeros, returned, thr, nodes>>

\* s * forms[i]
RMul(s, i, max) ==
    /\ Len(forms) < max
    /\ IF is_python_scalar(s)
       THEN NewForm("rmul", i, 0, <<s>>, Form__rmul__(forms[i], s))
       ELSE Raise("rmul", i, 0, <<s>>)
    /\ UNCHANGED <<pplog, zero_cache, zeros, returned, thr, nodes>>

(***************************************************************************)
(* Memoized fields of a Form: form data, repr, hash.                       *)
(***************************************************************************)
\* preprocess(form, object_names, common_cell, element_mapping): a new
\* metadata object; i is the form, args the arguments of the call
preprocess(i, args) == [owner |-> i, args |-> args, serial |-> Len(pplog) + 1]

\* a form data guard that never finds cached metadata
form_data_is_None_always(self) == self.form_data = self.form_data

\* if self._form_data is None
form_data_is_None(self) == self.form_data = NoData

\* form.compute_form_data(args) on forms[i]
ComputeFormData(i, args) ==
    /\ Len(pplog) < MaxPreprocess
    /\ IF form_data_is_None(forms[i])
       THEN /\ forms' = [forms EXCEPT ![i].form_data = preprocess(i, args)]
            /\ pplog' = Append(pplog, preprocess(i, args))
            /\ ret' = Ret("compute_form_data", i, 0, args, FALSE, preprocess(i, args))
       ELSE /\ UNCHANGED <<forms, pplog>>
            /\ ret' = Ret("compute_form_data", i, 0, args, FALSE, forms[i].form_data)
    /\ UNCHANGED <<zero_cache, zeros, returned, thr, nodes>>

\* form.form_data() on forms[i]
FormData(i) ==
    /\ ret' = Ret("form_data", i, 0, <<>>, FALSE, forms[i].form_data)
    /\ UNCHANGED <<forms, pplog, zero_cache, zeros, returned, thr, nodes>>

\* sep.join(strs[k..])
RECURSIVE Join(_, _, _)
Join(strs, sep, k) ==
    IF k > Len(strs) THEN ""
    ELSE IF k = Len(strs) THEN strs[k]
    ELSE strs[k] \o sep \o Join(strs, sep, k + 1)

\* repr of an expression: a leaf's name, or Kind(operand, ...)
RECURSIVE ReprExpr(_)
ReprExpr(e) ==
    IF Len(e.ops) = 0 THEN e.k
    ELSE e.k \o "(" \o Join([k \in 1..Len(e.ops) |-> ReprExpr(e.ops[k])], ", ", 1) \o ")"

ReprMeasure(m) ==
    "Measure('" \o m.domain_type \o "', " \o ToString(m.domain_id) \o ", " \o m.metadata \o ")"

ReprIntegral(itg) ==
    "Integral(" \o ReprExpr(itg.integrand) \o ", " \o ReprMeasure(itg.measure) \o ")"

\* "Form([%s])" % ", ".join(repr(itg) for itg in self._integrals)
ReprForm(integrals) ==
    "Form([" \o Join([k \in 1..Len(integrals) |-> ReprIntegral(integrals[k])], ", ", 1) \o "])"

\* Form.__repr__: the memoized string, computed when there is none
Form__repr__(self) == IF self.repr = NoStr THEN ReprForm(self.integrals) ELSE self.repr

\* hash(tuple(type(itg) for itg in self._integrals)): the hash of a tuple is
\* modelled by the tuple
HashOfTypes(integrals) == [k \in 1..Len(integrals) |-> integrals[k].type]

\* Form.__hash__: the memoized hash, computed when there is none
Form__hash__(self) == IF self.hash = NoHash THEN HashOfTypes(self.integrals) ELSE self.hash

\* an equality that compares hashes where the code compares repr strings
Form__eq__ByHash(self, other) ==
    IF other.class /= "Form" THEN FALSE
    ELSE Form__hash__(self) = Form__hash__(other)

\* Form.__eq__
Form__eq__(self, other) ==
    IF other.class /= "Form" THEN FALSE
    ELSE Form__repr__(self) = Form__repr__(other)

\* Form.signature
Form_signature(self) == Form__repr__(self)

\* an object that is no Form, though its repr reads like the empty Form's
NotAForm == [Form__init__(<<>>) EXCEPT !.class = "str", !.repr = "Form([])"]

\* repr(forms[i])
Repr(i) ==
    /\ forms' = [forms EXCEPT ![i].repr = Form__repr__(forms[i])]
    /\ ret' = Ret("repr", i, 0, <<>>, FALSE, Form__repr__(forms[i]))
    /\ UNCHANGED <<pplog, zero_cache, zeros, returned, thr, nodes>>

\* forms[i].signature()
Signature(i) ==
    /\ forms' = [forms EXCEPT ![i].repr = Form__repr__(forms[i])]
    /\ ret' = Ret("signature", i, 0, <<>>, FALSE, Form_signature(forms[i]))
    /\ UNCHANGED <<pplog, zero_cache, zeros, returned, thr, nodes>>

\* hash(forms[i])
Hash(i) ==
    /\ forms' = [forms EXCEPT ![i].hash = Form__hash__(forms[i])]
    /\ ret' = Ret("hash", i, 0, <<>>, FALSE, Form__hash__(forms[i]))
    /\ UNCHANGED <<pplog, zero_cache, zeros, returned, thr, nodes>>

\* forms[i] == forms[j]: repr is taken of both
Eq(i, j) ==
    /\ forms' = [k \in 1..Len(forms) |->
                    IF k \in {i, j} THEN [forms[k] EXCEPT !.repr = Form__repr__(forms[k])]
                    ELSE forms[k]]
    /\ ret' = Ret("eq", i, j, <<>>, FALSE, Form__eq__(forms[i], forms[j]))
    /\ UNCHANGED <<pplog, zero_cache, zeros, returned, thr, nodes>>

\* forms[i] == x for an x that is no Form: decided before any repr is taken
EqOther(i) ==
    /\ ret' = Ret("eq", i, 0, <<>>, FALSE, Form__eq__(forms[i], NotAForm))
    /\ UNCHANGED <<forms, pplog, zero_cache, zeros, returned, thr, nodes>>

\* the arguments compute_form_data is called with
DataArgs == {"default", "named"}

(***************************************************************************)
(* Form.cell.                                                              *)
(***************************************************************************)
\* a cell: its domain and whether it is an undefined placeholder
Cell(domain, undefined) == [domain |-> domain, undefined |-> undefined]
\* None where a cell is expected
NoCell == Cell("None", FALSE)

\* the cell of a leaf: f lives on a triangle, h on a tetrahedron, g on an
\* undefined cell; constants have no cell
TerminalCell(name) ==
    CASE name = "f" -> Cell("triangle", FALSE)
      [] name = "h" -> Cell("tetrahedron", FALSE)
      [] name = "g" -> Cell("undefined", TRUE)
      [] OTHER -> NoCell

\* Expr.cell(): a leaf's own cell, else the first cell found among the operands
RECURSIVE Expr_cell(_)
Expr_cell(e) ==
    IF Len(e.ops) = 0 THEN TerminalCell(e.k)
    ELSE LET cells == [k \in 1..Len(e.ops) |-> Expr_cell(e.ops[k])]
             found == { k \in 1..Len(e.ops) : cells[k] /= NoCell }
         IN  IF found = {} THEN NoCell
             ELSE cells[CHOOSE k \in found : \A n \in found : k <= n]

\* the loop of Form.cell without its break
RECURSIVE CellLoopNoBreak(_, _, _)
CellLoopNoBreak(integrals, k, c) ==
    IF k > Len(integrals) THEN c
    ELSE LET d == Expr_cell(integrals[k].integrand) IN
         IF d = NoCell THEN CellLoopNoBreak(integrals, k + 1, c)
         ELSE CellLoopNoBreak(integrals, k + 1, d)

\* the loop of Form.cell from integral k on, c being the best cell so far
RECURSIVE CellLoop(_, _, _)
CellLoop(integrals, k, c) ==
    IF k > Len(integrals) THEN c
    ELSE LET d == Expr_cell(integrals[k].integrand) IN
         IF d = NoCell THEN CellLoop(integrals, k + 1, c)
         ELSE IF ~d.undefined THEN d
         ELSE CellLoop(integrals, k + 1, d)

\* Form.cell with the scan running to the end of the list
Form_cellLast(self) == CellLoopNoBreak(self.integrals, 1, NoCell)

\* Form.cell
Form_cell(self) == CellLoop(self.integrals, 1, NoCell)

\* forms[i].cell()
CellOf(i) ==
    /\ ret' = Ret("cell", i, 0, <<>>, FALSE, Form_cell(forms[i]))
    /\ UNCHANGED <<forms, pplog, zero_cache, zeros, returned, thr, nodes>>

\* the forms of the cell runs: up to three integrals over three measures,
\* the integrands with a defined cell, an undefined cell or none
dS0 == Measure("interior_facet", 0, "None")
CellTerms ==
    { Terminal("f"), Terminal("g"), Terminal("h"), Terminal("c"),
      Expr__add__(Terminal("c"), Terminal("f")) }
CellLists ==
    { <<>> }
        \cup { <<Integral(x, dx0)>> : x \in CellTerms }
        \cup { <<Integral(x, dx0), Integral(y, ds0)>> : x, y \in CellTerms }
        \cup { <<Integral(x, dx0), Integral(y, ds0), Integral(z, dS0)>> : x, y, z \in CellTerms }

(***************************************************************************)
(* Form.__str__ and the accessors.                                         *)
(***************************************************************************)
\* str of an expression: sums, negations and products written infix
RECURSIVE StrExpr(_)
StrExpr(e) ==
    IF e.k = "Sum" THEN StrExpr(e.ops[1]) \o " + " \o StrExpr(e.ops[2])
    ELSE IF e.k = "Neg" THEN "-" \o StrExpr(e.ops[1])
    ELSE IF e.k = "Product" THEN StrExpr(e.ops[1]) \o " * " \o StrExpr(e.ops[2])
    ELSE e.k

StrMeasure(m) == "d" \o m.domain_type \o ToString(m.domain_id) \o "<" \o m.metadata \o ">"

StrIntegral(itg) == "{ " \o StrExpr(itg.integrand) \o " } * " \o StrMeasure(itg.measure)

\* the string Form.__str__ builds
StrForm(integrals) ==
    IF Len(integrals) > 0
    THEN Join([k \in 1..Len(integrals) |-> StrIntegral(integrals[k])], "\n  +  ", 1)
    ELSE "<empty Form>"

\* Form.__str__: the memoized string, built when there is none
Form__str__(self) == IF self.str = NoStr THEN StrForm(self.integrals) ELSE self.str

\* Form.integrals(domain_type); "None" stands for no domain type given
Form_integrals(self, domain_type) ==
    IF domain_type = "None" THEN self.integrals
    ELSE SelectSeq(self.integrals, LAMBDA itg : itg.measure.domain_type = domain_type)

\* Form.measures(domain_type)
Form_measures(self, domain_type) ==
    LET l == Form_integrals(self, domain_type) IN [k \in 1..Len(l) |-> l[k].measure]

\* Form.domains(domain_type)
Form_domains(self, domain_type) ==
    LET l == Form_measures(self, domain_type) IN [k \in 1..Len(l) |-> MeasureKey(l[k])]

\* str(forms[i])
Str(i) ==
    /\ forms' = [forms EXCEPT ![i].str = Form__str__(forms[i])]
    /\ ret' = Ret("str", i, 0, <<>>, FALSE, Form__str__(forms[i]))
    /\ UNCHANGED <<pplog, zero_cache, zeros, returned, thr, nodes>>

\* the domain types the accessors are asked for
DomainTypes == {"None", "exterior_facet"}

\* forms[i].integrals(dt), .measures(dt), .domains(dt)
Accessors(i, dt) ==
    /\ ret' = Ret("accessors", i, 0, dt, FALSE,
                  <<Form_integrals(forms[i], dt), Form_measures(forms[i], dt),
                    Form_domains(forms[i], dt)>>)
    /\ UNCHANGED <<forms, pplog, zero_cache, zeros, returned, thr, nodes>>

\* the lists the lifetime runs build forms from
LifeLists == { <<Ia>> }

NoRet == Ret("none", 0, 0, <<>>, FALSE, 0)

(***************************************************************************)
(* Zero tensors (ufl/base.py).                                             *)
(***************************************************************************)
\* the shapes zero tensors are requested for
Shapes == { <<>>, <<2>>, <<3>>, <<2, 3>> }

\* ZeroType(shape)
ZeroType(shape) == [shape |-> shape]

\* ZeroType.__eq__ (the other operand being a ZeroType too)
ZeroType__eq__(a, b) == a.shape = b.shape

\* a membership test that never finds the shape
InZeroCacheNever(shape) == zero_cache[shape] < 0

\* shape in _zero_cache
InZeroCache(shape) == zero_cache[shape] /= 0

\* the history of what zero_tensor(shape) has returned
Returned(shape, z) == returned' = [returned EXCEPT ![shape] = @ \cup {z}]

\* zero_tensor(shape), run without interruption
zero_tensor(shape) ==
    /\ Len(zeros) < MaxZeros
    /\ IF InZeroCache(shape)
       THEN /\ UNCHANGED <<zero_cache, zeros>>
            /\ Returned(shape, zero_cache[shape])
            /\ ret' = Ret("zero_tensor", 0, 0, shape, FALSE, zero_cache[shape])
       ELSE /\ zeros' = Append(zeros, ZeroType(shape))
            /\ zero_cache' = [zero_cache EXCEPT ![shape] = Len(zeros) + 1]
            /\ Returned(shape, Len(zeros) + 1)
            /\ ret' = Ret("zero_tensor", 0, 0, shape, FALSE, Len(zeros) + 1)
    /\ UNCHANGED <<forms, pplog, thr, nodes>>

(***************************************************************************)
(* zero_tensor called from several threads: one step per statement.        *)
(***************************************************************************)
Threads == {1, 2}

Idle == [pc |-> "idle", shape |-> <<>>, z |-> 0, result |-> 0]

\* a thread calls zero_tensor(shape)
Call(t, shape) ==
    /\ thr[t].pc = "idle"
    /\ thr' = [thr EXCEPT ![t] = [@ EXCEPT !.pc = "test", !.shape = shape]]
    /\ UNCHANGED <<forms, pplog, ret, zero_cache, zeros, returned, nodes>>

\* if shape in _zero_cache:
Test(t) ==
    /\ thr[t].pc = "test"
    /\ thr' = [thr EXCEPT ![t].pc = IF InZeroCache(thr[t].shape) THEN "lookup" ELSE "create"]
    /\ UNCHANGED <<forms, pplog, ret, zero_cache, zeros, returned, nodes>>

\* return _zero_cache[shape]
Lookup(t) ==
    /\ thr[t].pc = "lookup"
    /\ thr' = [thr EXCEPT ![t] = [@ EXCEPT !.pc = "done", !.result = zero_cache[thr[t].shape]]]
    /\ Returned(thr[t].shape, zero_cache[thr[t].shape])
    /\ UNCHANGED <<forms, pplog, ret, zero_cache, zeros, nodes>>

\* z = ZeroType(shape)
Create(t) ==
    /\ thr[t].pc = "create"
    /\ Len(zeros) < MaxZeros
    /\ zeros' = Append(zeros, ZeroType(thr[t].shape))
    /\ thr' = [thr EXCEPT ![t] = [@ EXCEPT !.pc = "store", !.z = Len(zeros) + 1]]
    /\ UNCHANGED <<forms, pplog, ret, zero_cache, returned, nodes>>

\* _zero_cache[shape] = z; return z
Store(t) ==
    /\ thr[t].pc = "store"
    /\ zero_cache' = [zero_cache EXCEPT ![thr[t].shape] = thr[t].z]
    /\ thr' = [thr EXCEPT ![t] = [@ EXCEPT !.pc = "done", !.result = thr[t].z]]
    /\ Returned(thr[t].shape, thr[t].z)
    /\ UNCHANGED <<forms, pplog, ret, zeros, nodes>>

(***************************************************************************)
(* Indices and the Indexed node (ufl/indexed.py).                          *)
(***************************************************************************)
\* Index(count): a symbolic index; FixedIndex(value): a fixed one
Index(c) == [kind |-> "Index", v |-> c]
FixedIndex(v) == [kind |-> "FixedIndex", v |-> v]
IsIndex(x) == x.kind = "Index"
IsFixedIndex(x) == x.kind = "FixedIndex"

\* an expression as Indexed sees it: shape, free indices, index dimensions
Expr(shape, fi, idims) == [shape |-> shape, free_indices |-> fi, index_dimensions |-> idims]
EmptyDict == <<>>

\* the number of times x occurs in the sequence
Count(seq, x) == Cardinality({ k \in 1..Len(seq) : seq[k] = x })

\* unique_indices(indices): the symbolic indices that occur once, in order
unique_indices(indices) ==
    SelectSeq(indices, LAMBDA x : IsIndex(x) /\ Count(indices, x) = 1)

\* the error checks of Indexed.__init__: "ok", or the error raised
Indexed_check(expression, multiindex) ==
    IF Len(expression.shape) /= Len(multiindex) THEN "rank"
    ELSE IF \E k \in 1..Len(multiindex) :
                IsFixedIndex(multiindex[k]) /\ multiindex[k].v >= expression.shape[k]
         THEN "range"
    ELSE "ok"

\* dict((i, s) for (i, s) in zip(multiindex._indices, shape) if isinstance(i, Index)):
\* a later position of the same index overwrites an earlier one
Indexed_idims(expression, multiindex) ==
    LET keys == { multiindex[k] : k \in { n \in 1..Len(multiindex) : IsIndex(multiindex[n]) } }
        last(x) == CHOOSE k \in 1..Len(multiindex) :
                       /\ multiindex[k] = x
                       /\ \A n \in 1..Len(multiindex) : multiindex[n] = x => n <= k
        own == expression.index_dimensions
    IN  [x \in keys \cup DOMAIN own |->
            IF x \in DOMAIN own THEN own[x] ELSE expression.shape[last(x)]]

\* free indices taken from the multi-index alone
Indexed_fi_OfMultiIndex(expression, multiindex) ==
    unique_indices(multiindex)

\* fi = unique_indices(expression.free_indices() + multiindex._indices)
Indexed_fi(expression, multiindex) ==
    unique_indices(expression.free_indices \o multiindex)

\* a node that keeps the shape of the expression it wraps
Indexed__init__KeepShape(expression, multiindex) ==
    [operands |-> <<expression, multiindex>>,
     free_indices |-> unique_indices(expression.free_indices \o multiindex),
     index_dimensions |-> expression.index_dimensions,
     ufl_shape |-> expression.shape]

\* Indexed.__init__: the node built from checked operands
Indexed__init__(expression, multiindex) ==
    [operands |-> <<expression, multiindex>>,
     free_indices |-> Indexed_fi(expression, multiindex),
     index_dimensions |-> Indexed_idims(expression, multiindex),
     ufl_shape |-> <<>>]

\* an Indexed node used as the expression of another
AsExpr(node) == Expr(node.ufl_shape, node.free_indices, node.index_dimensions)

\* the inputs: a vector, a matrix, a vector with a free index of its own
i1 == Index(1)
i2 == Index(2)
Exprs ==
    { Expr(<<3>>, <<>>, EmptyDict),
      Expr(<<2, 3>>, <<>>, EmptyDict),
      Expr(<<3>>, <<i1>>, (i1 :> 2)) }
Entries == { FixedIndex(-1), FixedIndex(2), FixedIndex(3), i1, i2 }
MultiIndices == { <<>> } \cup { <<x>> : x \in Entries } \cup { <<x, y>> : x, y \in Entries }

IndexedCall(expression, multiindex) ==
    LET c == Indexed_check(expression, multiindex) IN
    /\ Len(nodes) < MaxNodes
    /\ IF c = "ok"
       THEN /\ nodes' = Append(nodes, Indexed__init__(expression, multiindex))
            /\ ret' = Ret("Indexed", 0, 0, <<expression, multiindex>>, FALSE, Len(nodes) + 1)
       ELSE /\ nodes' = nodes
            /\ ret' = Ret("Indexed", 0, 0, <<expression, multiindex>>, TRUE, c)
    /\ UNCHANGED <<forms, pplog, zero_cache, zeros, returned, thr>>

\* Indexed(expression, multiindex) on an input expression
MakeIndexed(expression, multiindex) == IndexedCall(expression, multiindex)

\* Indexed(node, multiindex) on a node built before
Reindex(n, multiindex) == IndexedCall(AsExpr(nodes[n]), multiindex)

Init ==
    /\ forms = <<>>
    /\ ret = NoRet
    /\ pplog = <<>>
    /\ zero_cache = [s \in Shapes |-> 0]
    /\ zeros = <<>>
    /\ returned = [s \in Shapes |-> {}]
    /\ thr = [t \in Threads |-> Idle]
    /\ nodes = <<>>

Next ==
    \/ \E l \in InputLists : Construct(l, MaxForms)
    \/ \E i, j \in FormIds : Add(i, j, MaxForms)
    \/ \E i, j \in FormIds : Sub(i, j, MaxForms)
    \/ \E i \in FormIds : Neg(i, MaxForms)
    \/ \E i \in FormIds, s \in Scalars : RMul(s, i, MaxForms)

\* form algebra: Form(...), +, -, unary -, scalar *
Spec == Init /\ [][Next]_vars

NextData ==
    \/ \E l \in InputLists : Construct(l, MaxMemoForms)
    \/ \E i \in FormIds, a \in DataArgs : ComputeFormData(i, a)
    \/ \E i \in FormIds : FormData(i)

\* forms and their preprocessed metadata
SpecData == Init /\ [][NextData]_vars

NextCell ==
    \/ \E l \in CellLists : Construct(l, MaxCellForms)
    \/ \E i \in FormIds : CellOf(i)

\* forms and their cell
SpecCell == Init /\ [][NextCell]_vars

NextLife ==
    \/ \E l \in LifeLists : Construct(l, MaxMemoForms)
    \/ \E i, j \in FormIds : Add(i, j, MaxMemoForms)
    \/ \E i, j \in FormIds : Sub(i, j, MaxMemoForms)
    \/ \E i \in FormIds : Neg(i, MaxMemoForms)
    \/ \E i \in FormIds : RMul("2", i, MaxMemoForms)
    \/ \E i \in FormIds, dt \in DomainTypes : Accessors(i, dt)
    \/ \E i \in FormIds : Str(i)
    \/ \E i \in FormIds : Repr(i)
    \/ \E i \in FormIds : Hash(i)
    \/ \E i, j \in FormIds : Eq(i, j)
    \/ \E i \in FormIds : Signature(i)

\* forms over their lifetime: the algebra, the accessors and the memoized fields
SpecLife == Init /\ [][NextLife]_vars

NextMemo ==
    \/ \E l \in MemoLists : Construct(l, MaxMemoForms)
    \/ \E i, j \in FormIds : Add(i, j, MaxMemoForms)
    \/ \E i \in FormIds : Neg(i, MaxMemoForms)
    \/ \E i \in FormIds : Repr(i)
    \/ \E i \in FormIds : Signature(i)
    \/ \E i \in FormIds : Hash(i)
    \/ \E i, j \in FormIds : Eq(i, j)
    \/ \E i \in FormIds : EqOther(i)

\* forms, their algebra and their memoized repr and hash
SpecMemo == Init /\ [][NextMemo]_vars

NextZero ==
    \E s \in Shapes : zero_tensor(s)

\* zero tensors requested one call after the other
SpecZero == Init /\ [][NextZero]_vars

NextZeroThreads ==
    \E t \in Threads :
        \/ \E s \in Shapes : Call(t, s)
        \/ Test(t)
        \/ Lookup(t)
        \/ Create(t)
        \/ Store(t)

NextIndexed ==
    \/ \E e \in Exprs, m \in MultiIndices : MakeIndexed(e, m)
    \/ \E n \in 1..Len(nodes), m \in { x \in MultiIndices : Len(x) <= 1 } : Reindex(n, m)

\* Indexed nodes built from expressions and from one another
SpecIndexed == Init /\ [][NextIndexed]_vars

\* zero tensors requested by two threads at once
SpecZeroThreads == Init /\ [][NextZeroThreads]_vars


(***************************************************************************)
(* Properties of the form algebra.                                         *)
(***************************************************************************)
\* no two integrals of the list have the same measure key
DistinctMeasures(l) ==
    \A i, j \in 1..Len(l) : i < j => MeasureKey(l[i].measure) /= MeasureKey(l[j].measure)

KeysOf(l) == { MeasureKey(l[k].measure) : k \in 1..Len(l) }

\* the integral of the list over this measure key
The(l, key) == l[CHOOSE k \in 1..Len(l) : MeasureKey(l[k].measure) = key]

\* the last call was a + b of two forms that each hold one integral per measure
AddedDistinct ==
    /\ ret.op = "add"
    /\ ~ret.raised
    /\ DistinctMeasures(forms[ret.a].integrals)
    /\ DistinctMeasures(forms[ret.b].integrals)

\* r is a and b merged by measure, a shared measure's integral taking its
\* measure from the list `from` (a or b)
MergedByMeasure(r, a, b, from) ==
    /\ KeysOf(r) = KeysOf(a) \cup KeysOf(b)
    /\ DistinctMeasures(r)
    /\ \A key \in KeysOf(r) :
        IF key \notin KeysOf(b) THEN The(r, key) = The(a, key)
        ELSE IF key \notin KeysOf(a) THEN The(r, key) = The(b, key)
        ELSE The(r, key) =
                Integral(Node("Sum", <<The(a, key).integrand, The(b, key).integrand>>),
                         The(from, key).measure)

FormMeasuresDistinct ==
    \A i \in FormIds : DistinctMeasures(forms[i].integrals)

\* C3: Form(integrals) with two integrals of the same measure raises and
\* produces no Form.
ConstructorRejectsDuplicates ==
    (ret.op = "Form" /\ ~DistinctMeasures(ret.arg)) => ret.raised

(***************************************************************************)
(* Properties of the zero cache.                                           *)
(***************************************************************************)
\* C4: requests made one after the other: all requests for a shape return
\* one instance, created on the first request and of that shape; it is the
\* cache's entry, which is never removed or replaced; zero tensors of
\* different shapes are not equal.
ZeroCanonical ==
    /\ \A s \in Shapes :
        /\ Cardinality(returned[s]) <= 1
        /\ returned[s] = IF InZeroCache(s) THEN {zero_cache[s]} ELSE {}
        /\ InZeroCache(s) => zeros[zero_cache[s]] = ZeroType(s)
    /\ \A i, j \in 1..Len(zeros) :
        zeros[i].shape /= zeros[j].shape => ~ZeroType__eq__(zeros[i], zeros[j])
    /\ \A i, j \in 1..Len(zeros) : ZeroType__eq__(zeros[i], zeros[j]) => i = j
    /\ ret.op = "zero_tensor" => ret.val = zero_cache[ret.arg]

\* a request answered from the cache after another shape was cached
ZeroCacheHitWitness ==
    /\ ret.op = "zero_tensor"
    /\ Len(zeros) >= 2
    /\ ret.val < Len(zeros)

\* C5: two threads that have both finished zero_tensor for the same shape
\* hold the same instance, the one in the cache.
ThreadsShareZero ==
    \A t, u \in Threads :
        (thr[t].pc = "done" /\ thr[u].pc = "done" /\ thr[t].shape = thr[u].shape) =>
            /\ thr[t].result = thr[u].result
            /\ thr[t].result = zero_cache[thr[t].shape]


(***************************************************************************)
(* Properties of compute_form_data.                                        *)
(***************************************************************************)
\* the metadata objects preprocess has returned for form i, in call order
PreprocessedFor(i) == SelectSeq(pplog, LAMBDA d : d.owner = i)

\* C6: preprocess is invoked at most once per form, on the first
\* compute_form_data; every compute_form_data returns the object of that one
\* invocation, which is the form's cached metadata and what form_data()
\* returns.
ComputeFormDataOnce ==
    /\ \A i \in FormIds :
        /\ Len(PreprocessedFor(i)) <= 1
        /\ forms[i].form_data =
              IF Len(PreprocessedFor(i)) = 0 THEN NoData ELSE PreprocessedFor(i)[1]
    /\ ret.op = "compute_form_data" =>
        /\ Len(PreprocessedFor(ret.a)) = 1
        /\ ret.val = PreprocessedFor(ret.a)[1]
    /\ ret.op = "form_data" => ret.val = forms[ret.a].form_data

\* a later compute_form_data, with other arguments than the first, while
\* another form has metadata of its own
ComputeFormDataWitness ==
    /\ ret.op = "compute_form_data"
    /\ ret.arg /= ret.val.args
    /\ \E i \in FormIds : i /= ret.a /\ forms[i].form_data /= NoData

(***************************************************************************)
(* Properties of Form equality and hash.                                   *)
(***************************************************************************)
\* C10: == on two forms answers whether their signatures are the same
\* string, == with a non-Form is false, forms that are equal have equal
\* hashes, and the hash is the tuple of the kinds of the integrals. The
\* signature is the repr built from the integral list (a memoized one is
\* never out of date).
FormEqualityAndHash ==
    /\ \A i \in FormIds : Form_signature(forms[i]) = ReprForm(forms[i].integrals)
    /\ (ret.op = "eq" /\ ret.b /= 0) =>
          (ret.val <=> (ReprForm(forms[ret.a].integrals) = ReprForm(forms[ret.b].integrals)))
    /\ (ret.op = "eq" /\ ret.b = 0) => ret.val = FALSE
    /\ ret.op = "signature" => ret.val = ReprForm(forms[ret.a].integrals)
    /\ \A i, j \in FormIds :
          Form__eq__(forms[i], forms[j]) => Form__hash__(forms[i]) = Form__hash__(forms[j])
    /\ \A i \in FormIds :
          Form__hash__(forms[i]) = [k \in 1..Len(forms[i].integrals) |-> forms[i].integrals[k].type]

\* two distinct Form objects compared equal, the hash of the left one
\* having been taken before
FormEqualWitness ==
    /\ ret.op = "eq"
    /\ ret.b /= 0
    /\ ret.a /= ret.b
    /\ ret.val = TRUE
    /\ forms[ret.a].hash /= NoHash

(***************************************************************************)
(* Properties of Indexed.                                                  *)
(***************************************************************************)
\* len(multiindex) is the rank and every fixed entry v at a position of
\* dimension d has 0 <= v < d
ValidIndexing(expression, multiindex) ==
    /\ Len(multiindex) = Len(expression.shape)
    /\ \A k \in 1..Len(multiindex) :
          IsFixedIndex(multiindex[k]) =>
              (0 <= multiindex[k].v /\ multiindex[k].v < expression.shape[k])

\* the last call built an Indexed node
Indexed_built == ret.op = "Indexed" /\ ~ret.raised

\* C7: Indexed(expr, multiindex) succeeds if and only if the indexing is
\* valid, and otherwise raises a rank or range error.
IndexedSucceedsIffValid ==
    ret.op = "Indexed" =>
        /\ ~ret.raised <=> ValidIndexing(ret.arg[1], ret.arg[2])
        /\ ret.raised => ret.val \in {"rank", "range"}

AllFixedInRange(expression, multiindex) ==
    /\ ValidIndexing(expression, multiindex)
    /\ \A k \in 1..Len(multiindex) : IsFixedIndex(multiindex[k])

\* C9, as stated: with a multi-index of fixed entries in range the node has
\* shape () and no free indices.
IndexedAllFixedNoFree ==
    (Indexed_built /\ AllFixedInRange(ret.arg[1], ret.arg[2])) =>
        /\ nodes[ret.val].ufl_shape = <<>>
        /\ nodes[ret.val].free_indices = <<>>

\* C9, amended: with a multi-index of fixed entries in range the node has
\* shape () and the free indices of the expression it wraps.
IndexedAllFixedKeepsFree ==
    (Indexed_built /\ AllFixedInRange(ret.arg[1], ret.arg[2])) =>
        /\ nodes[ret.val].ufl_shape = <<>>
        /\ nodes[ret.val].free_indices = ret.arg[1].free_indices

\* a rank-1 expression with a free index of its own, indexed by a fixed entry
IndexedAllFixedWitness ==
    /\ Indexed_built
    /\ AllFixedInRange(ret.arg[1], ret.arg[2])
    /\ Len(ret.arg[2]) >= 1
    /\ ret.arg[1].free_indices /= <<>>


(***************************************************************************)
(* Properties of Form.cell.                                                *)
(***************************************************************************)
\* the cell of the integrand of integral k of the list
IntegrandCell(l, k) == Expr_cell(l[k].integrand)

\* the positions of the list whose integrand has a fully defined cell
DefinedAt(l) ==
    { k \in 1..Len(l) : IntegrandCell(l, k) /= NoCell /\ ~IntegrandCell(l, k).undefined }

\* the positions of the list whose integrand has an undefined cell
UndefinedAt(l) ==
    { k \in 1..Len(l) : IntegrandCell(l, k) /= NoCell /\ IntegrandCell(l, k).undefined }

\* C11: cell() returns the cell of the first integral whose integrand has a
\* fully defined cell, whatever comes before it; with no defined cell, an
\* undefined cell of some integrand if there is one, and None otherwise.
CellPrefersDefined ==
    ret.op = "cell" =>
        LET l == forms[ret.a].integrals IN
        IF DefinedAt(l) /= {}
        THEN ret.val = IntegrandCell(l, CHOOSE k \in DefinedAt(l) : \A n \in DefinedAt(l) : k <= n)
        ELSE IF UndefinedAt(l) /= {}
        THEN ret.val \in { IntegrandCell(l, k) : k \in UndefinedAt(l) }
        ELSE ret.val = NoCell

\* cell() of a form whose first defined cell comes after an integrand with
\* an undefined cell and one with no cell
CellWitness ==
    /\ ret.op = "cell"
    /\ LET l == forms[ret.a].integrals IN
       \E k \in DefinedAt(l) :
           /\ \E n \in UndefinedAt(l) : n < k
           /\ \E n \in 1..Len(l) : n < k /\ IntegrandCell(l, n) = NoCell
           /\ ret.val = IntegrandCell(l, k)


(***************************************************************************)
(* Properties of a Form over its lifetime.                                 *)
(***************************************************************************)
\* the memoized field that the call op returns, in form f
MemoField(f, op) ==
    IF op = "str" THEN f.str ELSE f.repr

\* C12: no call changes the integral list of an existing Form (the operands
\* of an addition included) or removes a Form; a memoized str, repr or hash,
\* once set, keeps its value; and a call of str, repr, signature or hash on
\* a form whose field is set returns the value of the field.
FormFixedForLife ==
    [][ /\ Len(forms') >= Len(forms)
        /\ \A i \in 1..Len(forms) :
              /\ forms'[i].integrals = forms[i].integrals
              /\ forms[i].str /= NoStr => forms'[i].str = forms[i].str
              /\ forms[i].repr /= NoStr => forms'[i].repr = forms[i].repr
              /\ forms[i].hash /= NoHash => forms'[i].hash = forms[i].hash
        /\ (ret' /= ret /\ ret'.op \in {"str", "repr", "signature"}
              /\ MemoField(forms[ret'.a], ret'.op) /= NoStr)
              => ret'.val = MemoField(forms[ret'.a], ret'.op)
        /\ (ret' /= ret /\ ret'.op = "hash" /\ forms[ret'.a].hash /= NoHash)
              => ret'.val = forms[ret'.a].hash
      ]_vars

\* a sum was built after str, repr and hash of its operands were taken, and
\* its integral list is not the list of its left operand
FormLifeWitness ==
    /\ ret.op = "add"
    /\ ~ret.raised
    /\ \A i \in {ret.a, ret.b} :
          /\ forms[i].str = StrForm(forms[i].integrals)
          /\ forms[i].repr = ReprForm(forms[i].integrals)
          /\ forms[i].hash /= NoHash
    /\ forms[ret.val].integrals /= forms[ret.a].integrals

====
